---- MODULE Spec2Model ----
(***************************************************************************)
(* State-machine model of src/app.py, the PrimeCore trip planner: a        *)
(* Streamlit script that is re-run on every user interaction.  The state   *)
(* is st.session_state (trip_plan, trip_df, distance), the API key the     *)
(* script reads on each run, and what the latest script run did (requests  *)
(* issued, message shown, dashboard rendered).  One action is one whole    *)
(* script run triggered by one interaction.                                *)
(***************************************************************************)
EXTENDS Integers, Sequences, FiniteSets

VARIABLES
    GROQ_API_KEY,   \* app.py:147, the key the next script run will read
    session,        \* st.session_state: key -> value
    message,        \* the st.error shown by the latest script run
    rendered,       \* whether the latest script run rendered the dashboard
    log,            \* outbound requests and sleeps of the latest script run
    mapping,        \* the get_mapping call of the latest script run
    clustering,     \* the cluster_attractions call of the latest script run
    last,           \* the interaction that triggered the latest script run
    src,            \* history: which execute run wrote each session key
    hadResults      \* history: the latest reset discarded a stored plan

vars == <<GROQ_API_KEY, session, message, rendered, log, mapping,
          clustering, last, src, hadResults>>

-----------------------------------------------------------------------------
(* Bounds of the model *)

MaxLandmarks == 2   \* longest "mapcoords" list explored by SpecRun
MaxDays == 3        \* largest value of the "Days" widget explored by SpecRun

-----------------------------------------------------------------------------
(* Values *)

None == [none |-> TRUE]

Keys == {"trip_plan", "trip_df", "distance"}

\* Text typed into the "Origin City" and "Destination" widgets.  "Rio(" is
\* a name that is not a valid regular expression.
Origins == {"Oslo", "Rio("}
Dests == {"Rome", "Oslo"}

\* Place names the language model may put into "mapcoords".
Landmarks == {"Oslo Fjord", "Atlantis"}

ApiKeys == {"", "gsk"}

Min(a, b) == IF a < b THEN a ELSE b

Abs(a) == IF a < 0 THEN -a ELSE a

SeqUpTo(S, n) == UNION {[1..k -> S] : k \in 0..n}

-----------------------------------------------------------------------------
(* Session state, app.py:25-30 and app.py:404 *)

SessionDefault(k) == IF k = "distance" THEN 0 ELSE None

\* "if k not in st.session_state: st.session_state.k = default"
SessionInit(s) ==
    [k \in Keys |-> IF k \in DOMAIN s THEN s[k] ELSE SessionDefault(k)]

\* (variant: a reset whose callback clears nothing)
ClearNothing(s) == s

\* st.session_state.clear()
Clear(s) == [k \in {} |-> None]

\* "if st.session_state.trip_plan:" -- a dict is truthy unless it is empty
Truthy(plan) == plan # None /\ plan.keys # {}

-----------------------------------------------------------------------------
(* get_itinerary_ai, app.py:154-179 *)

\* The part of the generated itinerary the pipeline reads: the "mapcoords"
\* entry, which may be missing, a JSON list of names, or some other JSON
\* value (a string, null).
EmptyPlan == [keys |-> {}, is_list |-> FALSE, mapcoords |-> <<>>]

ListPlan(l) == [keys |-> {"mapcoords"}, is_list |-> TRUE, mapcoords |-> l]

StringPlan == [keys |-> {"mapcoords"}, is_list |-> FALSE, mapcoords |-> <<>>]

\* Every itinerary within the bounds.
Plans ==
    {EmptyPlan, StringPlan} \cup {ListPlan(l) : l \in SeqUpTo(Landmarks, MaxLandmarks)}

\* The itineraries and day counts explored across sequences of runs.
SessionPlans ==
    {EmptyPlan, StringPlan, ListPlan(<<"Oslo Fjord">>), ListPlan(<<"Atlantis", "Oslo Fjord">>)}

SessionDays == {1, 2}

\* What the chat-completion endpoint answers: the request fails, the
\* content is not JSON, or the content is a JSON object.
Responses(plans) ==
    {[kind |-> "error", body |-> EmptyPlan],
     [kind |-> "unparseable", body |-> EmptyPlan]}
    \cup {[kind |-> "json", body |-> p] : p \in plans}

\* (variant: a failed call is swallowed and an empty itinerary returned)
get_itinerary_ai_swallow(resp) ==
    IF resp.kind = "json"
    THEN [raised |-> FALSE, plan |-> resp.body]
    ELSE [raised |-> FALSE, plan |-> EmptyPlan]

\* client.chat.completions.create raises on a failed request, json.loads
\* raises on content that is not JSON; otherwise the parsed object returns.
get_itinerary_ai(resp) ==
    IF resp.kind = "json"
    THEN [raised |-> FALSE, plan |-> resp.body]
    ELSE [raised |-> TRUE, plan |-> EmptyPlan]

\* plan.get("mapcoords", [])
PlanGetMapcoords(plan) ==
    IF "mapcoords" \in plan.keys
    THEN [is_list |-> plan.is_list, items |-> plan.mapcoords]
    ELSE [is_list |-> TRUE, items |-> <<>>]

ModelEvent(resp) == [op |-> "model", response |-> resp.kind]

-----------------------------------------------------------------------------
(* get_mapping, app.py:181-195 *)

\* What the geocoder knows: geolocator.geocode(q) returns a location with a
\* latitude and a longitude, or None for a name it cannot resolve.
Gazetteer(q) ==
    CASE q = "Oslo" -> [lat |-> 60, lon |-> 11]
      [] q = "Rome" -> [lat |-> 42, lon |-> 12]
      [] q = "Oslo Fjord" -> [lat |-> 59, lon |-> 10]
      [] OTHER -> None

\* One lookup: the request raises (network error, timeout) or answers.
Geocode(q, fails) ==
    IF fails THEN [raised |-> TRUE, loc |-> None]
    ELSE [raised |-> FALSE, loc |-> Gazetteer(q)]

GeocodeEvent(q, r) ==
    [op |-> "geocode", q |-> q,
     result |-> IF r.raised THEN "raised" ELSE IF r.loc = None THEN "none" ELSE "found"]

SleepEvent == [op |-> "sleep"]

\* "[origin] + landmarks + [dest]"
Route(origin, dest, landmarks) == <<origin>> \o landmarks \o <<dest>>

\* (variant: a lookup that raised is tried a second time)
GeocodeStepRetry(st, q, fails) ==
    LET r == Geocode(q, fails)
        once == st.log \o <<SleepEvent, GeocodeEvent(q, r)>>
    IN  IF r.raised
        THEN [points |-> st.points,
              log |-> once \o <<SleepEvent, GeocodeEvent(q, r)>>]
        ELSE IF r.loc # None
        THEN [points |-> Append(st.points,
                                [name |-> q, lat |-> r.loc.lat, lon |-> r.loc.lon]),
              log |-> once]
        ELSE [points |-> st.points, log |-> once]

\* (variant: a lookup that finds nothing still yields a row, at 0, 0)
GeocodeStepKeepsMisses(st, q, fails) ==
    LET r == Geocode(q, fails)
        logged == st.log \o <<SleepEvent, GeocodeEvent(q, r)>>
    IN  IF r.raised
        THEN [points |-> st.points, log |-> logged]
        ELSE IF r.loc # None
        THEN [points |-> Append(st.points,
                                [name |-> q, lat |-> r.loc.lat, lon |-> r.loc.lon]),
              log |-> logged]
        ELSE [points |-> Append(st.points, [name |-> q, lat |-> 0, lon |-> 0]),
              log |-> logged]

\* The body of "for q in route": sleep, one lookup, append on success.
\* st is [points, log].
GeocodeStep(st, q, fails) ==
    LET r == Geocode(q, fails)
        logged == st.log \o <<SleepEvent, GeocodeEvent(q, r)>>
    IN  IF r.raised
        THEN [points |-> st.points, log |-> logged]
        ELSE IF r.loc # None
        THEN [points |-> Append(st.points,
                                [name |-> q, lat |-> r.loc.lat, lon |-> r.loc.lon]),
              log |-> logged]
        ELSE [points |-> st.points, log |-> logged]

RECURSIVE GeocodeLoop(_, _, _, _)
GeocodeLoop(route, fails, i, st) ==
    IF i > Len(route) THEN st
    ELSE GeocodeLoop(route, fails, i + 1, GeocodeStep(st, route[i], fails[i]))

\* pd.DataFrame(points): no columns at all when points is empty
DataFrame(points) ==
    [columns |-> IF points = <<>> THEN {} ELSE {"name", "lat", "lon"},
     rows |-> points]

\* fails[i] tells whether the i-th lookup raises.  Returns the table and
\* the requests issued.
get_mapping(origin, dest, landmarks, fails) ==
    LET st == GeocodeLoop(Route(origin, dest, landmarks), fails, 1,
                          [points |-> <<>>, log |-> <<>>])
    IN  [df |-> DataFrame(st.points), log |-> st.log]

-----------------------------------------------------------------------------
(* cluster_attractions, app.py:197-207 *)

\* (variant: the early return also takes two-row tables)
SkipsClusteringBelowThree(df) == df = None \/ df.rows = <<>> \/ Len(df.rows) < 3

\* "df is None or df.empty or len(df) < 2"
SkipsClustering(df) == df = None \/ df.rows = <<>> \/ Len(df.rows) < 2

\* (variant: max in place of min)
NClustersMax(n_clusters, len) == IF n_clusters > len THEN n_clusters ELSE len

\* "n_clusters=min(n_clusters, len(df))"
NClusters(n_clusters, len) == Min(n_clusters, len)

\* KMeans(n_clusters=k, random_state=42).fit_predict(coords): one label in
\* [0, k) per row.  The library decides which; every labelling is allowed.
fit_predict(coords, k) == [1..Len(coords) -> 0..(k - 1)]

\* df["cluster"] = labels
AssignCluster(rows, labels) ==
    [i \in 1..Len(rows) |->
        [name |-> rows[i].name, lat |-> rows[i].lat, lon |-> rows[i].lon,
         cluster |-> labels[i]]]

Permutations ==
    [n \in 0..(MaxLandmarks + 2) |->
        {p \in [1..n -> 1..n] : \A i, j \in 1..n : p[i] = p[j] => i = j}]

\* The index orders the sort may use.  sort_values sorts with numpy's
\* default quicksort, which is not stable: rows with equal labels may come
\* out in any order.
argsort(labels) ==
    {p \in Permutations[Len(labels)] :
        \A i \in 1..(Len(labels) - 1) : labels[p[i]] <= labels[p[i + 1]]}

\* (variant: the labelled table is returned without sorting)
sort_values_unsorted(rows, order) == rows

\* df.sort_values("cluster"), given the index order the sort arrived at
sort_values(rows, order) == [i \in 1..Len(rows) |-> rows[order[i]]]

Coords(df) == [i \in 1..Len(df.rows) |-> <<df.rows[i].lat, df.rows[i].lon>>]

\* The label vectors the KMeans call of cluster_attractions(df, n_clusters)
\* may produce; no call is made when the function returns early.
KMeansOutcomes(df, n_clusters) ==
    IF SkipsClustering(df) THEN {<<>>}
    ELSE fit_predict(Coords(df), NClusters(n_clusters, Len(df.rows)))

\* cluster_attractions(df, n_clusters), given what KMeans and the sort did
cluster_attractions(df, n_clusters, labels, order) ==
    IF SkipsClustering(df) THEN df
    ELSE [columns |-> df.columns \cup {"cluster"},
          rows |-> sort_values(AssignCluster(df.rows, labels), order)]

-----------------------------------------------------------------------------
(* Distance roll-up, app.py:247-260 *)

\* str.lower() on the names of the model
Lower(s) ==
    CASE s = "Oslo" -> "oslo"
      [] s = "Rome" -> "rome"
      [] s = "Oslo Fjord" -> "oslo fjord"
      [] s = "Atlantis" -> "atlantis"
      [] s = "Rio(" -> "rio("
      [] OTHER -> s

\* re.compile(pattern) succeeds
ValidRegex(pattern) == pattern # "rio("

\* re.search(pattern, text) finds a match, for the lower-cased names of the
\* model: a name matches itself, and "oslo" also matches "oslo fjord".
Search(pattern, text) == pattern = text \/ (pattern = "oslo" /\ text = "oslo fjord")

\* df[df["name"].str.lower().str.contains(needle.lower())]
Containing(df, needle) ==
    SelectSeq(df.rows, LAMBDA row : Search(Lower(needle), Lower(row.name)))

\* int(geodesic(a, b).km), here the whole number of degrees between a and b
Geodesic(a, b) == Abs(a.lat - b.lat) + Abs(a.lon - b.lon)

\* Lines 247-260: the value stored in distance, or the exception raised.
ComputeDistance(df, origin, dest) ==
    IF df = None \/ df.rows = <<>> \/ "name" \notin df.columns
    THEN [raised |-> FALSE, value |-> 0]
    ELSE IF ~ValidRegex(Lower(origin)) \/ ~ValidRegex(Lower(dest))
    THEN [raised |-> TRUE, value |-> 0]
    ELSE LET start == Containing(df, origin)
             end == Containing(df, dest)
         IN  IF start # <<>> /\ end # <<>>
             THEN [raised |-> FALSE, value |-> Geodesic(start[1], end[1])]
             ELSE [raised |-> FALSE, value |-> 0]

-----------------------------------------------------------------------------
(* The script run, app.py:25-30, 232-262, 267, 404 *)

NoCall == [called |-> FALSE]

KeyError == "Groq API key is not set on the server."

Failed == "Trip generation failed"

\* (variant: the key is never checked)
KeyMissingNever(key) == FALSE

\* "if not GROQ_API_KEY:"
KeyMissing(key) == key = ""

\* History bookkeeping: an execute run that stores keys ks makes them the
\* latest and everything an earlier run stored older.
Wrote(ks) ==
    [k \in Keys |-> IF k \in ks THEN "latest"
                    ELSE IF src[k] = "latest" THEN "earlier" ELSE src[k]]

\* What every script run does around the button handler: the session keys
\* are initialised if missing (lines 25-30) and the output gate (line 267)
\* decides on the dashboard.
ScriptRun(s, msg, requests, m, c, by) ==
    /\ session' = SessionInit(s)
    /\ message' = msg
    /\ log' = requests
    /\ mapping' = m
    /\ clustering' = c
    /\ last' = by
    /\ rendered' = Truthy(SessionInit(s).trip_plan)

Init ==
    /\ GROQ_API_KEY \in ApiKeys
    /\ session = SessionInit(Clear(<<>>))
    /\ message = ""
    /\ rendered = FALSE
    /\ log = <<>>
    /\ mapping = NoCall
    /\ clustering = NoCall
    /\ last = "start"
    /\ src = [k \in Keys |-> "init"]
    /\ hadResults = FALSE

\* The operator edits the secrets store or restarts with another
\* environment; the next script run reads the new key (line 147).
ConfigureKey ==
    /\ GROQ_API_KEY' \in ApiKeys \ {GROQ_API_KEY}
    /\ UNCHANGED <<session, message, rendered, log, mapping, clustering, last,
                   src, hadResults>>

\* Any interaction other than the two buttons: the script re-runs, no
\* handler fires.
Rerun ==
    /\ ScriptRun(session, "", <<>>, NoCall, NoCall, "rerun")
    /\ hadResults' = FALSE
    /\ UNCHANGED <<GROQ_API_KEY, src>>

\* "Reset Application": on_click clears the session, then the script re-runs.
Reset ==
    /\ ScriptRun(Clear(session), "", <<>>, NoCall, NoCall, "reset")
    /\ hadResults' = (session.trip_plan # None)
    /\ src' = [k \in Keys |-> "init"]
    /\ UNCHANGED GROQ_API_KEY

\* Execute with no API key: lines 233-234.
ExecuteNoKey ==
    /\ KeyMissing(GROQ_API_KEY)
    /\ ScriptRun(session, KeyError, <<>>, NoCall, NoCall, "execute")
    /\ hadResults' = FALSE
    /\ UNCHANGED <<GROQ_API_KEY, src>>

\* The try block when get_itinerary_ai raises: lines 238, 261-262.
ModelFails(resp) ==
    /\ get_itinerary_ai(resp).raised
    /\ ScriptRun(session, Failed, <<ModelEvent(resp)>>, NoCall, NoCall, "execute")
    /\ hadResults' = FALSE
    /\ UNCHANGED <<GROQ_API_KEY, src>>

\* The try block when the plan is stored and building the route raises
\* because "mapcoords" is not a list: lines 238-242, 184, 261-262.
RouteFails(resp) ==
    \E ai \in {get_itinerary_ai(resp)} :
        /\ ~ai.raised
        /\ ~PlanGetMapcoords(ai.plan).is_list
        /\ ScriptRun([session EXCEPT !.trip_plan = ai.plan], Failed,
                     <<ModelEvent(resp)>>, NoCall, NoCall, "execute")
        /\ src' = Wrote({"trip_plan"})
        /\ hadResults' = FALSE
        /\ UNCHANGED GROQ_API_KEY

\* The try block up to the distance roll-up: lines 238-260, and 261-262
\* when the roll-up raises.
Mapped(origin, dest, days, resp) ==
    \E ai \in {get_itinerary_ai(resp)} :
    \E landmarks \in {PlanGetMapcoords(ai.plan)} :
        /\ ~ai.raised
        /\ landmarks.is_list
        /\ \E fails \in [1..(Len(landmarks.items) + 2) -> BOOLEAN] :
           \E m \in {get_mapping(origin, dest, landmarks.items, fails)} :
           \E labels \in KMeansOutcomes(m.df, days) :
           \E order \in argsort(labels) :
           \E df \in {cluster_attractions(m.df, days, labels, order)} :
           \E d \in {ComputeDistance(df, origin, dest)} :
                LET stored == [session EXCEPT !.trip_plan = ai.plan, !.trip_df = df]
                    mcall == [called |-> TRUE, origin |-> origin, dest |-> dest,
                              landmarks |-> landmarks.items, out |-> m.df]
                    ccall == [called |-> TRUE, df |-> m.df,
                              n_clusters |-> days, out |-> df]
                IN  IF d.raised
                    THEN /\ ScriptRun(stored, Failed, <<ModelEvent(resp)>> \o m.log,
                                      mcall, ccall, "execute")
                         /\ src' = Wrote({"trip_plan", "trip_df"})
                    ELSE /\ ScriptRun([stored EXCEPT !.distance = d.value], "",
                                      <<ModelEvent(resp)>> \o m.log,
                                      mcall, ccall, "execute")
                         /\ src' = Wrote(Keys)
        /\ hadResults' = FALSE
        /\ UNCHANGED GROQ_API_KEY

\* "EXECUTE TRIP ANALYTICS" with a key, by the path the run takes.
ExecuteModelFails ==
    /\ ~KeyMissing(GROQ_API_KEY)
    /\ \E resp \in Responses(SessionPlans) : ModelFails(resp)

ExecuteRouteFails ==
    /\ ~KeyMissing(GROQ_API_KEY)
    /\ \E resp \in Responses(SessionPlans) : RouteFails(resp)

ExecuteMapped ==
    /\ ~KeyMissing(GROQ_API_KEY)
    /\ \E origin \in Origins, dest \in Dests, days \in SessionDays,
          resp \in Responses(SessionPlans) : Mapped(origin, dest, days, resp)

Next ==
    \/ ConfigureKey
    \/ Rerun
    \/ Reset
    \/ ExecuteNoKey
    \/ ExecuteModelFails
    \/ ExecuteRouteFails
    \/ ExecuteMapped

\* Any sequence of interactions, over the session's itineraries.
Spec == Init /\ [][Next]_vars

-----------------------------------------------------------------------------
(* One execute run on a fresh session, over every input within the bounds *)

InitRun == Init /\ ~KeyMissing(GROQ_API_KEY)

RunModelFails ==
    /\ last = "start"
    /\ \E resp \in Responses(Plans) : ModelFails(resp)

RunRouteFails ==
    /\ last = "start"
    /\ \E resp \in Responses(Plans) : RouteFails(resp)

RunMapped ==
    /\ last = "start"
    /\ \E origin \in Origins, dest \in Dests, days \in 1..MaxDays,
          resp \in Responses(Plans) : Mapped(origin, dest, days, resp)

NextRun ==
    \/ RunModelFails
    \/ RunRouteFails
    \/ RunMapped

SpecRun == InitRun /\ [][NextRun]_vars

-----------------------------------------------------------------------------
(* Properties *)

Range(s) == {s[i] : i \in 1..Len(s)}

Count(s, x) == Cardinality({i \in 1..Len(s) : s[i] = x})

GeocodeEvents(l) == SelectSeq(l, LAMBDA e : e.op = "geocode")

Labels(rows) ==
    {rows[i].cluster : i \in {j \in 1..Len(rows) : "cluster" \in DOMAIN rows[j]}}

\* The rows without their cluster label
Unlabelled(rows) ==
    [i \in 1..Len(rows) |->
        [name |-> rows[i].name, lat |-> rows[i].lat, lon |-> rows[i].lon]]

\* C1: every cluster label that cluster_attractions attaches is an integer
\* in [0, k) with k = min(requested days, number of geocoded points), so the
\* final table never has more than k distinct groups.
C1_LabelsWithinK ==
    clustering.called =>
        LET n == Len(clustering.df.rows)
            k == Min(clustering.n_clusters, n)
            rows == session.trip_df.rows
        IN  /\ session.trip_df = clustering.out
            /\ \A l \in Labels(rows) : l \in 0..(k - 1)
            /\ Cardinality(Labels(rows)) <= k

\* A run in which the number of points, not the day count, limits k and
\* every group is used.
C1_Witness ==
    /\ clustering.called
    /\ Len(clustering.df.rows) >= 2
    /\ clustering.n_clusters > Len(clustering.df.rows)
    /\ Cardinality(Labels(session.trip_df.rows)) = Len(clustering.df.rows)

\* C2: the table get_mapping returns holds exactly the route entries whose
\* lookup returned a location, in route order, each with an integer latitude
\* and longitude; an entry whose lookup raised or found nothing is absent.
C2_OnlyLocatedPoints ==
    mapping.called =>
        LET route == Route(mapping.origin, mapping.dest, mapping.landmarks)
            events == GeocodeEvents(log)
            found == SelectSeq(events, LAMBDA e : e.result = "found")
            rows == mapping.out.rows
        IN  /\ [i \in 1..Len(events) |-> events[i].q] = route
            /\ Len(rows) = Len(found)
            /\ \A i \in 1..Len(rows) :
                /\ rows[i].name = found[i].q
                /\ DOMAIN rows[i] = {"name", "lat", "lon"}
                /\ rows[i].lat \in Int
                /\ rows[i].lon \in Int

\* A run with a lookup that raised, one that found nothing and one that
\* found a location.
C2_Witness ==
    /\ mapping.called
    /\ \E i, j, k \in 1..Len(log) :
        /\ log[i].op = "geocode" /\ log[i].result = "raised"
        /\ log[j].op = "geocode" /\ log[j].result = "none"
        /\ log[k].op = "geocode" /\ log[k].result = "found"
    /\ mapping.out.rows # <<>>

\* C3 as claimed: after the grouping step every row of a non-empty table,
\* a single-row table included, carries a group label.
C3_EveryRowLabelled ==
    (clustering.called /\ clustering.df.rows # <<>>) =>
        \A i \in 1..Len(session.trip_df.rows) :
            "cluster" \in DOMAIN session.trip_df.rows[i]

\* C3 as amended: a table of two or more rows gets a label in
\* [0, min(days, rows)) on every row; a table of fewer than two rows is
\* returned as it is, without a cluster column.
C3_LabelledFromTwoRows ==
    clustering.called =>
        LET n == Len(clustering.df.rows)
            out == clustering.out
        IN  IF n >= 2
            THEN /\ "cluster" \in out.columns
                 /\ Len(out.rows) = n
                 /\ \A i \in 1..n :
                        /\ "cluster" \in DOMAIN out.rows[i]
                        /\ out.rows[i].cluster \in 0..(Min(clustering.n_clusters, n) - 1)
            ELSE /\ out = clustering.df
                 /\ "cluster" \notin out.columns

\* A two-row table that was labelled.
C3_Witness ==
    /\ clustering.called
    /\ Len(clustering.df.rows) = 2
    /\ "cluster" \in session.trip_df.columns

\* C4: with an empty API key the execute run shows the key error, issues no
\* model call and no geocoding request, and leaves the session unchanged.
C4_NoKeyHaltsRun ==
    [][(GROQ_API_KEY = "" /\ GROQ_API_KEY' = "" /\ last' = "execute") =>
            (message' = KeyError /\ log' = <<>> /\ session' = session)]_vars

\* An execute run without a key on a session that holds earlier results.
C4_Witness ==
    /\ GROQ_API_KEY = ""
    /\ last = "execute"
    /\ message = KeyError
    /\ session.trip_df # None

\* C5: one execute run issues the lookups one at a time in the order
\* origin, landmarks in list order, destination, exactly one per route
\* entry, each after a sleep, whatever the earlier lookups did.
C5_SequentialGeocoding ==
    mapping.called =>
        LET route == Route(mapping.origin, mapping.dest, mapping.landmarks)
        IN  /\ Len(log) = 1 + 2 * Len(route)
            /\ log[1].op = "model"
            /\ \A i \in 1..Len(route) :
                /\ log[2 * i] = SleepEvent
                /\ log[2 * i + 1].op = "geocode"
                /\ log[2 * i + 1].q = route[i]

\* A run over two different landmarks whose first lookup raised and whose
\* last lookup found a location.
C5_Witness ==
    /\ mapping.called
    /\ Len(mapping.landmarks) = 2
    /\ mapping.landmarks[1] # mapping.landmarks[2]
    /\ log[3].result = "raised"
    /\ log[Len(log)].result = "found"

\* C6: when the model call raises, the execute run shows the failure
\* message, issues no geocoding request and leaves the session unchanged.
C6_ModelFailureLeavesSession ==
    [][(GROQ_API_KEY' = GROQ_API_KEY /\ last' = "execute" /\ log' # <<>>
            /\ log'[1].response # "json") =>
            (message' = Failed /\ Len(log') = 1 /\ session' = session)]_vars

\* A failed model call on a session that holds earlier results.
C6_Witness ==
    /\ last = "execute"
    /\ log # <<>>
    /\ log[1].response = "unparseable"
    /\ message = Failed
    /\ Truthy(session.trip_plan)
    /\ session.trip_df # None

\* C8: after a reset the session holds trip_plan None, trip_df None and
\* distance 0 and no dashboard is rendered, and a dashboard appears again
\* only in an execute run whose model call returned and stored a plan.
C8_ResetDiscards ==
    /\ [](last = "reset" =>
            /\ session = [k \in Keys |-> SessionDefault(k)]
            /\ ~rendered)
    /\ [][(~rendered /\ rendered') =>
            /\ last' = "execute"
            /\ log' # <<>>
            /\ log'[1].response = "json"
            /\ Truthy(session'.trip_plan)]_vars

\* A reset that discarded a stored plan.
C8_Witness == last = "reset" /\ hadResults

\* C9: when cluster_attractions labels a table, the returned rows are in
\* non-decreasing label order and are a permutation of the input rows.
C9_SortedPermutation ==
    (clustering.called /\ Len(clustering.df.rows) >= 2) =>
        LET in == clustering.df.rows
            out == clustering.out.rows
        IN  /\ \A i \in 1..(Len(out) - 1) : out[i].cluster <= out[i + 1].cluster
            /\ Len(out) = Len(in)
            /\ \A r \in Range(in) : Count(Unlabelled(out), r) = Count(in, r)

\* A labelled table whose rows were reordered into more than one group.
C9_Witness ==
    /\ clustering.called
    /\ Len(clustering.df.rows) >= 3
    /\ Unlabelled(clustering.out.rows) # clustering.df.rows
    /\ Cardinality(Labels(clustering.out.rows)) >= 2

\* C10: the session never holds the plan of the latest storing run next to
\* a trip_df or a distance that an earlier run stored.
C10_SameRun ==
    src.trip_plan = "latest" => (src.trip_df # "earlier" /\ src.distance # "earlier")

====
